---- MODULE Spec2Model ----
(***************************************************************************)
(* Model of the excavation-diagram DXF renderers of geoathan90/ekskafes:   *)
(*   - src/app.py            the Streamlit page and draw_squares_dxf       *)
(*                           (plain render, millimetres)                   *)
(*   - src/cli_egsa87_dxf.py main (geo-referenced render, metres)          *)
(*                                                                         *)
(* Numbers.  The code computes with floats.  Every value it produces from  *)
(* an integer distance / side and an angle that is a multiple of 45        *)
(* degrees lies in (1/Den) * Z[sqrt 2]; a number is modelled exactly as    *)
(* the pair <<a, b>> standing for (a + b*sqrt(2)) / Den.  The float NaN is *)
(* the value NaN, which every arithmetic operator propagates.              *)
(***************************************************************************)
EXTENDS Integers, Sequences, FiniteSets

VARIABLES
    variant,    \* "ui": the Streamlit page; "call": draw_squares_dxf called
                \* with a mapping of its own; "cli": cli_egsa87_dxf.main
    pc,         \* position in the script / render
    sel_rows,   \* app.py sel_rows / selected_rows: leg -> row or None
    side_mm,    \* app.py side_mm_val / side_mm (plain);  side_m (cli)
    add_ann,    \* app.py add_ann / add_dims_and_notes
    args,       \* cli: the parsed arguments (legs, easting, northing, azimuth)
    tdf,        \* cli: first row of tdf per Leg Type label, as far as read
    i,          \* loop index into the iteration order
    centers,    \* draw_squares_dxf centers, in insertion order
    layers,     \* doc.layers (names)
    entities,   \* msp entities, in insertion order
    meta,       \* cli: header variables and XDATA set on the document
    ops,        \* every operation made on the document, in order
    files,      \* documents written by doc.saveas, in order
    msg,        \* what the run reported: st.info/st.error/st.success, exits
    leg_angle,  \* the module-level dict LEG_ANGLE_DEG of the running program
    last        \* the loop's locals: the centre and corner list last computed

vars == <<variant, pc, sel_rows, side_mm, add_ann, args, tdf, i, centers,
          layers, entities, meta, ops, files, msg, leg_angle, last>>

-----------------------------------------------------------------------------
(* Bounds of the model *)

\* distances in the table are the integers -1 .. MaxDist (metres), or NaN
MaxDist == 1
\* the square side is an integer -1 .. MaxSide (metres)
MaxSide == 1
\* cli: at most MaxLegs values after --legs
MaxLegs == 2

-----------------------------------------------------------------------------
(* Exact arithmetic standing for the floats *)

\* denominator of the number representation (tenths)
Den == 2 * 5

NaN == <<>>

Num(n) == <<Den * n, 0>>

Add(p, q) == IF p = NaN \/ q = NaN THEN NaN ELSE <<p[1] + q[1], p[2] + q[2]>>

Sub(p, q) == IF p = NaN \/ q = NaN THEN NaN ELSE <<p[1] - q[1], p[2] - q[2]>>

Neg(p) == IF p = NaN THEN NaN ELSE <<0 - p[1], 0 - p[2]>>

\* (a + b r)(c + d r) / Den^2 with r*r = 2, brought back to denominator Den
Mul(p, q) ==
    IF p = NaN \/ q = NaN THEN NaN
    ELSE <<(p[1] * q[1] + 2 * p[2] * q[2]) \div Den,
           (p[1] * q[2] + p[2] * q[1]) \div Den>>

\* x / 2.0 and x * 0.5
Halve(p) == IF p = NaN THEN NaN ELSE <<p[1] \div 2, p[2] \div 2>>

\* p / n for a rational n > 0
DivRat(p, n) ==
    IF p = NaN \/ n = NaN THEN NaN
    ELSE <<(Den * p[1]) \div n[1], (Den * p[2]) \div n[1]>>

Abs(k) == IF k < 0 THEN 0 - k ELSE k

\* sign of a number of the model: of a + b*sqrt(2), decided exactly
Sign(p) ==
    LET a == p[1]
        b == p[2]
        sa == IF a > 0 THEN 1 ELSE IF a < 0 THEN 0 - 1 ELSE 0
        sb == IF b > 0 THEN 1 ELSE IF b < 0 THEN 0 - 1 ELSE 0
    IN  IF sa = sb THEN sa
        ELSE IF sa = 0 THEN sb
        ELSE IF sb = 0 THEN sa
        ELSE IF a * a > 2 * b * b THEN sa ELSE sb

\* p > 0, which is False for NaN
Gt0(p) == p # NaN /\ Sign(p) > 0

\* math.cos(math.radians(deg)) for deg a multiple of 45
CosDeg(deg) ==
    LET d == deg % 360
    IN  CASE d = 0   -> <<Den, 0>>
          [] d = 45  -> <<0, 5>>
          [] d = 90  -> <<0, 0>>
          [] d = 135 -> <<0, 0 - 5>>
          [] d = 180 -> <<0 - Den, 0>>
          [] d = 225 -> <<0, 0 - 5>>
          [] d = 270 -> <<0, 0>>
          [] d = 315 -> <<0, 5>>

\* math.sin(math.radians(deg)) for deg a multiple of 45
SinDeg(deg) == CosDeg(deg - 90)

\* math.hypot(vx, vy), for the vectors the renders give it: axis-parallel or
\* diagonal ((0 + b r)/Den in both components, |b| equal): sqrt(2 * 2 b^2)/Den
Hypot(vx, vy) ==
    CASE vx = NaN \/ vy = NaN -> NaN
      [] vx # NaN /\ vy # NaN /\ vx = <<0, 0>> -> <<Abs(vy[1]), Abs(vy[2])>>
      [] vx # NaN /\ vy # NaN /\ vx # <<0, 0>> /\ vy = <<0, 0>>
            -> <<Abs(vx[1]), Abs(vx[2])>>
      [] vx # NaN /\ vy # NaN /\ vx # <<0, 0>> /\ vy # <<0, 0>>
            /\ vx[1] = 0 /\ vy[1] = 0 /\ Abs(vx[2]) = Abs(vy[2])
            -> <<2 * Abs(vx[2]), 0>>

-----------------------------------------------------------------------------
(* Configuration of src/app.py *)

LAYER_SQUARES == "Squares"
LAYER_ANN == "Annotations"
TEXT_HEIGHT_MM == 150
DIM_TEXT_HEIGHT_MM == 160
NOTE_TEXT_HEIGHT_MM == 150
DIM_OFFSET_MM == 250
LEG_NOTE_OFFSET_MM == 200

LegLabels == {"a", "b", "c", "d"}

\* the keys of sel_rows, in the order the dict literal lists them
LegOrder == <<"a", "b", "c", "d">>

LEG_ANGLE_DEG == [l \in LegLabels |->
    CASE l = "a" -> 225 [] l = "b" -> 135 [] l = "c" -> 45 [] l = "d" -> 315]

-----------------------------------------------------------------------------
(* Helpers of src/app.py *)

mm(val_m) == Mul(val_m, Num(1000))

\* mutant: the second and fourth corner exchanged (clockwise order)
square_corners_clockwise(cx, cy, side) ==
    LET half == Halve(side)
        x0 == Sub(cx, half)
        y0 == Sub(cy, half)
        x1 == Add(cx, half)
        y1 == Add(cy, half)
    IN  << <<x0, y0>>, <<x0, y1>>, <<x1, y1>>, <<x1, y0>>, <<x0, y0>> >>

square_corners(cx, cy, side) ==
    LET half == Halve(side)
        x0 == Sub(cx, half)
        y0 == Sub(cy, half)
        x1 == Add(cx, half)
        y1 == Add(cy, half)
    IN  << <<x0, y0>>, <<x1, y0>>, <<x1, y1>>, <<x0, y1>>, <<x0, y0>> >>

\* mutant: sine and cosine exchanged
polar_to_cart_swapped(dist, angle_deg) ==
    <<Mul(dist, SinDeg(angle_deg)), Mul(dist, CosDeg(angle_deg))>>

polar_to_cart(dist, angle_deg) ==
    <<Mul(dist, CosDeg(angle_deg)), Mul(dist, SinDeg(angle_deg))>>

\* mutant: the annotations layer is not created
ensure_layers_squares_only(L) ==
    IF LAYER_SQUARES \notin L THEN <<LAYER_SQUARES>> ELSE <<>>

\* the layers ensure_layers creates in a document whose layers are L, in order
ensure_layers(L) ==
    (IF LAYER_SQUARES \notin L THEN <<LAYER_SQUARES>> ELSE <<>>)
    \o (IF LAYER_ANN \notin L THEN <<LAYER_ANN>> ELSE <<>>)

unit_vec(vx, vy) ==
    LET n == Hypot(vx, vy)
    IN  IF Gt0(n) THEN <<DivRat(vx, n), DivRat(vy, n)>>
        ELSE <<Num(0), Num(0)>>

perp_vec(vx, vy) == <<Neg(vy), vx>>

\* mutant: the NaN test never fires
isna_never(x) == FALSE

\* pd.isna(x)
isna(x) == x = NaN

\* row is None
is_none(row) == ~row.present

-----------------------------------------------------------------------------
(* Document entities *)

NoCenter == <<>>

Range(s) == {s[k] : k \in DOMAIN s}

\* msp.add_lwpolyline(pts, dxfattribs={"layer": layer, "closed": True})
LwPolyline(leg, pts, layer) ==
    [kind |-> "LWPOLYLINE", tag |-> "square", leg |-> leg, layer |-> layer,
     pts |-> pts, text |-> <<>>, height |-> 0, closed |-> TRUE]

\* msp.add_line(p, q, dxfattribs={"layer": layer})
Line(tag, leg, p, q, layer) ==
    [kind |-> "LINE", tag |-> tag, leg |-> leg, layer |-> layer,
     pts |-> <<p, q>>, text |-> <<>>, height |-> 0, closed |-> FALSE]

\* add_mtext(msp, text, insert, height, layer)
add_mtext(tag, leg, text, insert, height, layer) ==
    [kind |-> "MTEXT", tag |-> tag, leg |-> leg, layer |-> layer,
     pts |-> <<insert>>, text |-> text, height |-> height, closed |-> FALSE]

\* one document operation per entity added
OpOf(e) ==
    CASE e.kind = "LWPOLYLINE" -> <<"add_lwpolyline", e.layer>>
      [] e.kind = "LINE"       -> <<"add_line", e.layer>>
      [] e.kind = "MTEXT"      -> <<"add_mtext", e.layer>>
      [] e.kind = "TEXT"       -> <<"add_text", e.layer>>

OpsOf(es) == [k \in DOMAIN es |-> OpOf(es[k])]

-----------------------------------------------------------------------------
(* add_annotations of src/app.py *)

Present(cs) == SelectSeq(cs, LAMBDA e : e.c # NoCenter)

\* pass 1: construction line and distance label of one centre
DimEntities(leg, c) ==
    LET cx == c[1]
        cy == c[2]
        dist == Hypot(cx, cy)
        mx == Halve(cx)
        my == Halve(cy)
        u == unit_vec(cx, cy)
        p == perp_vec(u[1], u[2])
        tx == Add(mx, Mul(p[1], Num(DIM_OFFSET_MM)))
        ty == Add(my, Mul(p[2], Num(DIM_OFFSET_MM)))
    IN  << Line("dim_line", leg, <<Num(0), Num(0)>>, <<cx, cy>>, LAYER_ANN),
           add_mtext("dim_label", leg, <<"d_", leg, dist, "mm">>, <<tx, ty>>,
                     DIM_TEXT_HEIGHT_MM, LAYER_ANN) >>

RECURSIVE DimPass(_)
DimPass(cs) ==
    IF cs = <<>> THEN <<>>
    ELSE DimEntities(Head(cs).leg, Head(cs).c) \o DimPass(Tail(cs))

\* mutant: the last present centre instead of the first
first_center_last(cs) == Present(cs)[Len(Present(cs))]

\* next((k, v) for k, v in centers.items() if v is not None)
first_center(cs) == Head(Present(cs))

\* pass 2: the one side note
SideNote(cs, side) ==
    IF Present(cs) # <<>>       \* placed_any
    THEN LET c0 == first_center(cs).c
             note_pos == <<Sub(c0[1], Mul(<<6, 0>>, side)),
                           Add(c0[2], Mul(<<6, 0>>, side))>>
         IN  << add_mtext("side_note", first_center(cs).leg,
                          <<"Square side =", side, "mm">>, note_pos,
                          NOTE_TEXT_HEIGHT_MM, LAYER_ANN) >>
    ELSE <<>>

\* pass 3: the note of one leg
LegNote(leg, c, leg_rows) ==
    LET row == leg_rows[leg]
        leg_type_str == IF row.present THEN row.leg_type ELSE <<>>
        ang == leg_angle[leg]
        off_dir == perp_vec(CosDeg(ang), SinDeg(ang))
        nx == Add(c[1], Mul(off_dir[1], Num(LEG_NOTE_OFFSET_MM)))
        ny == Add(c[2], Mul(off_dir[2], Num(LEG_NOTE_OFFSET_MM)))
    IN  add_mtext("leg_note", leg, <<"Skelos", leg, leg_type_str>>, <<nx, ny>>,
                  TEXT_HEIGHT_MM, LAYER_ANN)

LegNotes(cs, leg_rows) ==
    [k \in DOMAIN Present(cs) |->
        LegNote(Present(cs)[k].leg, Present(cs)[k].c, leg_rows)]

\* the entities add_annotations adds, in order
add_annotations(cs, leg_rows, side) ==
    DimPass(Present(cs)) \o SideNote(cs, side) \o LegNotes(cs, leg_rows)

-----------------------------------------------------------------------------
(* Inputs *)

DistValues == {Num(d) : d \in (0 - 1) .. MaxDist} \cup {NaN}

SideValues == {Num(s) : s \in (0 - 1) .. MaxSide}

\* row_for_leg: None when nothing is selected for the leg
NoneRow == [present |-> FALSE, dist |-> NaN, leg_type |-> <<>>]

\* a row of tower_df: its Leg Type names it, its distance may be NaN
RowOf(d) == [present |-> TRUE, dist |-> d, leg_type |-> <<"LT", d>>]

RowOptions == {NoneRow} \cup {RowOf(d) : d \in DistValues}

NoArgs == [legs |-> <<>>, easting |-> 0, northing |-> 0, azimuth |-> 0]

Unread == [read |-> FALSE, found |-> FALSE, dist |-> NaN]

NoLocals == [c |-> <<>>, pts |-> <<>>]

NoMeta == [insunits |-> 0, insbase |-> <<>>, appids |-> {}, xdata |-> <<>>]

\* the legs --legs accepts (choices=...), and one value it rejects
LegWords == LegLabels \cup {"e"}

LegLists == UNION {[1 .. n -> LegWords] : n \in 0 .. MaxLegs}

Azimuths == {0, 90, 180, 270}

\* --easting, --northing: the site centre of the geo-referenced scenario
Origins == {<<500000, 4500000>>}

InitPlain ==
    /\ variant \in {"ui", "call"}
    /\ pc = IF variant = "ui" THEN "script" ELSE "draw"
    /\ sel_rows \in [LegLabels -> RowOptions]
    /\ side_mm \in {mm(s) : s \in SideValues}
    /\ add_ann \in BOOLEAN
    /\ args = NoArgs
    /\ tdf = [l \in LegLabels |-> Unread]

InitCli ==
    /\ variant = "cli"
    /\ pc = "cli_parse"
    /\ sel_rows = [l \in LegLabels |-> NoneRow]
    /\ side_mm = NaN
    /\ add_ann = FALSE
    /\ \E ls \in LegLists, o \in Origins, az \in Azimuths :
          args = [legs |-> ls, easting |-> o[1], northing |-> o[2],
                  azimuth |-> az]
    /\ tdf = [l \in LegLabels |-> Unread]

Init ==
    /\ InitPlain \/ InitCli
    /\ i = 0
    /\ centers = <<>>
    /\ layers = {}
    /\ entities = <<>>
    /\ meta = NoMeta
    /\ ops = <<>>
    /\ files = <<>>
    /\ msg = <<>>
    /\ leg_angle = LEG_ANGLE_DEG
    /\ last = NoLocals

inputs == <<variant, sel_rows, add_ann, args, leg_angle>>
doc == <<layers, entities, meta, ops>>

-----------------------------------------------------------------------------
(* The Streamlit page, src/app.py lines 246-293 *)

\* mutant: the test inverted, all(v is not None ...)
all_none_inverted(rows) == \A l \in LegLabels : rows[l].present

\* all(v is None for v in sel_rows.values())
all_none(rows) == \A l \in LegLabels : ~rows[l].present

\* lines 253-255: no leg chosen: st.info, st.stop
ScriptGuard ==
    /\ variant = "ui" /\ pc = "script"
    /\ IF all_none(sel_rows)
       THEN /\ msg' = Append(msg, <<"info">>)
            /\ pc' = "stopped"
       ELSE /\ msg' = msg
            /\ pc' = "form"
    /\ UNCHANGED <<inputs, last, side_mm, tdf, i, centers, doc, files>>

\* lines 262-274: the button is pressed, the handler calls draw_squares_dxf
ClickCreate ==
    /\ variant = "ui" /\ pc = "form"
    /\ pc' = "draw"
    /\ UNCHANGED <<inputs, last, side_mm, tdf, i, centers, doc, files, msg>>

-----------------------------------------------------------------------------
(* draw_squares_dxf, src/app.py lines 170-195 *)

\* lines 171-175: ezdxf.new, ensure_layers, modelspace, centers = {}
DrawNew ==
    /\ variant \in {"ui", "call"} /\ pc = "draw"
    /\ layers' = {"0"} \cup Range(ensure_layers({"0"}))
    /\ ops' = <<<<"new">>>> \o
              [k \in DOMAIN ensure_layers({"0"}) |->
                  <<"layers.new", ensure_layers({"0"})[k]>>]
    /\ entities' = <<>>
    /\ centers' = <<>>
    /\ i' = 1
    /\ pc' = "loop"
    /\ UNCHANGED <<inputs, last, side_mm, tdf, meta, files, msg>>

\* lines 177-189: one iteration of the loop over selected_rows.items()
DrawLeg ==
    /\ variant \in {"ui", "call"} /\ pc = "loop" /\ i <= Len(LegOrder)
    /\ LET leg_label == LegOrder[i]
           row == sel_rows[leg_label]
           dist_m == row.dist
           dist == mm(dist_m)
           angle == leg_angle[leg_label]
           c == polar_to_cart(dist, angle)
           pts == square_corners(c[1], c[2], side_mm)
           e == LwPolyline(leg_label, pts, LAYER_SQUARES)
       IN  IF is_none(row)
           THEN /\ centers' = Append(centers, [leg |-> leg_label, c |-> NoCenter])
                /\ i' = i + 1
                /\ UNCHANGED <<pc, entities, ops, msg, last>>
           ELSE IF isna(dist_m)
           THEN /\ pc' = "raised"
                /\ msg' = Append(msg, <<"ValueError", leg_label>>)
                /\ UNCHANGED <<i, centers, entities, ops, last>>
           ELSE /\ centers' = Append(centers, [leg |-> leg_label, c |-> c])
                /\ last' = [c |-> c, pts |-> pts]
                /\ entities' = Append(entities, e)
                /\ ops' = Append(ops, OpOf(e))
                /\ i' = i + 1
                /\ UNCHANGED <<pc, msg>>
    /\ UNCHANGED <<inputs, side_mm, tdf, layers, meta, files>>

\* lines 191-192: the annotations, when asked for
DrawAnnotate ==
    /\ variant \in {"ui", "call"} /\ pc = "loop" /\ i > Len(LegOrder)
    /\ LET es == IF add_ann THEN add_annotations(centers, sel_rows, side_mm)
                 ELSE <<>>
       IN  /\ entities' = entities \o es
           /\ ops' = ops \o OpsOf(es)
    /\ pc' = "save"
    /\ UNCHANGED <<inputs, last, side_mm, tdf, i, centers, layers, meta, files, msg>>

\* lines 194-195: doc.saveas(out_path); return out_path
DrawSave ==
    /\ variant \in {"ui", "call"} /\ pc = "save"
    /\ files' = Append(files, [layers |-> layers, entities |-> entities,
                               meta |-> meta])
    /\ ops' = Append(ops, <<"saveas">>)
    /\ pc' = "returned"
    /\ UNCHANGED <<inputs, last, side_mm, tdf, i, centers, layers, entities, meta, msg>>

\* lines 275-282: st.success and the download button
HandlerSuccess ==
    /\ variant = "ui" /\ pc = "returned"
    /\ msg' = Append(msg, <<"success">>)
    /\ pc' = "done"
    /\ UNCHANGED <<inputs, last, side_mm, tdf, i, centers, doc, files>>

\* lines 292-293: except Exception: st.error
HandlerExcept ==
    /\ variant = "ui" /\ pc = "raised"
    /\ msg' = Append(msg, <<"error">>)
    /\ pc' = "done"
    /\ UNCHANGED <<inputs, last, side_mm, tdf, i, centers, doc, files>>

-----------------------------------------------------------------------------
(* Helpers of src/cli_egsa87_dxf.py *)

polar_xy(dist_m, angle_deg) ==
    <<Mul(dist_m, CosDeg(angle_deg)), Mul(dist_m, SinDeg(angle_deg))>>

square_corners_local(cx, cy, side_m) ==
    LET h == Halve(side_m)
    IN  << <<Sub(cx, h), Sub(cy, h)>>,
           <<Add(cx, h), Sub(cy, h)>>,
           <<Add(cx, h), Add(cy, h)>>,
           <<Sub(cx, h), Add(cy, h)>>,
           <<Sub(cx, h), Sub(cy, h)>> >>

rot_ccw_about_origin(x, y, theta_deg_from_x) ==
    LET ct == CosDeg(theta_deg_from_x)
        st == SinDeg(theta_deg_from_x)
    IN  <<Sub(Mul(x, ct), Mul(y, st)), Add(Mul(x, st), Mul(y, ct))>>

\* mutant: the azimuth used as the angle from +X, unconverted
theta_from_x_unconverted(azimuth) == azimuth

\* line 69: "clockwise from North" to CCW-from-+X
theta_from_x(azimuth) == 90 - azimuth

\* lines 111-113: rotate about the origin, then translate to (E0, N0)
to_geo(p, theta, E0, N0) ==
    LET r == rot_ccw_about_origin(p[1], p[2], theta)
    IN  <<Add(Num(E0), r[1]), Add(Num(N0), r[2])>>

\* line 114: the layer of a leg's polygon
SquareLayer(leg) ==
    CASE leg = "a" -> "Square_a" [] leg = "b" -> "Square_b"
      [] leg = "c" -> "Square_c" [] leg = "d" -> "Square_d"

\* msp.add_text(text, dxfattribs={"height": h, "layer": layer}).set_pos(pos)
add_text(tag, text, pos, height, layer) ==
    [kind |-> "TEXT", tag |-> tag, leg |-> "-", layer |-> layer,
     pts |-> <<pos>>, text |-> text, height |-> height, closed |-> FALSE]

\* mutant: a missing row is not skipped
row_empty_never(row) == FALSE

\* row.empty
row_empty(row) == ~row.found

ARROW_LEN == 5
INSUNITS_METERS == 6

\* what tdf[tdf["Leg Type"] == leg].head(1) may hold: no row, or a first row
\* (its distance one of 1 .. MaxDist metres, or NaN)
CliDistValues == {Num(d) : d \in 1 .. MaxDist} \cup {NaN}

TdfOptions ==
    {[read |-> TRUE, found |-> FALSE, dist |-> NaN]}
    \cup {[read |-> TRUE, found |-> TRUE, dist |-> d] : d \in CliDistValues}

-----------------------------------------------------------------------------
(* main, src/cli_egsa87_dxf.py lines 46-125 *)

\* lines 47-57: parse_args: --legs is required, nargs="+", choices a b c d
CliParse ==
    /\ variant = "cli" /\ pc = "cli_parse"
    /\ IF args.legs = <<>> \/ \E k \in DOMAIN args.legs : args.legs[k] \notin LegLabels
       THEN /\ msg' = Append(msg, <<"usage_error">>)
            /\ pc' = "cli_exit"
       ELSE /\ msg' = msg
            /\ pc' = "cli_load"
    /\ UNCHANGED <<inputs, last, side_mm, tdf, i, centers, doc, files>>

\* lines 71-80: the tower's rows and its square side
CliLoad ==
    /\ variant = "cli" /\ pc = "cli_load"
    /\ \/ /\ msg' = Append(msg, <<"exit_no_rows">>)       \* tdf.empty
          /\ pc' = "cli_exit"
          /\ UNCHANGED side_mm
       \/ /\ msg' = Append(msg, <<"exit_no_side">>)       \* side_series.empty
          /\ pc' = "cli_exit"
          /\ UNCHANGED side_mm
       \/ /\ side_mm' \in SideValues
          /\ pc' = "cli_doc"
          /\ UNCHANGED msg
    /\ UNCHANGED <<inputs, last, tdf, i, centers, doc, files>>

\* lines 83-95: the document, its header and the GEODATA XDATA
CliPrepare ==
    /\ variant = "cli" /\ pc = "cli_doc"
    /\ layers' = {"0"}
    /\ entities' = <<>>
    /\ meta' = [insunits |-> INSUNITS_METERS,
                insbase |-> <<args.easting, args.northing, 0>>,
                appids |-> {"GEODATA"},
                xdata |-> << <<"CRS", "EPSG:2100">>,
                             <<"Origin_E", args.easting>>,
                             <<"Origin_N", args.northing>>,
                             <<"Azimuth", args.azimuth>> >>]
    /\ ops' = << <<"new">>, <<"header", "$INSUNITS">>, <<"header", "$INSBASE">>,
                 <<"appids.add", "GEODATA">>, <<"set_xdata", "GEODATA">> >>
    /\ i' = 1
    /\ pc' = "cli_loop"
    /\ UNCHANGED <<inputs, last, side_mm, tdf, centers, files, msg>>

\* lines 98-114: one iteration of the loop over args.legs
CliLeg ==
    /\ variant = "cli" /\ pc = "cli_loop" /\ i <= Len(args.legs)
    /\ LET leg == args.legs[i] IN
       \E row \in TdfOptions :
          /\ tdf[leg].read => row = tdf[leg]
          /\ tdf' = [tdf EXCEPT ![leg] = row]
          /\ LET dist_m == row.dist
                 angle_deg == leg_angle[leg]
                 c == polar_xy(dist_m, angle_deg)
                 pts_local == square_corners_local(c[1], c[2], side_mm)
                 pts_geo == [k \in DOMAIN pts_local |->
                                to_geo(pts_local[k], theta_from_x(args.azimuth),
                                       args.easting, args.northing)]
                 e == LwPolyline(leg, pts_geo, SquareLayer(leg))
             IN  IF row_empty(row)
                 THEN /\ msg' = Append(msg, <<"warning", leg>>)
                      /\ UNCHANGED <<entities, ops, last>>
                 ELSE /\ last' = [c |-> c, pts |-> pts_local]
                      /\ entities' = Append(entities, e)
                      /\ ops' = Append(ops, OpOf(e))
                      /\ UNCHANGED msg
    /\ i' = i + 1
    /\ UNCHANGED <<inputs, side_mm, pc, centers, layers, meta, files>>

\* lines 117-119: the north arrow and its label
CliNorth ==
    /\ variant = "cli" /\ pc = "cli_loop" /\ i > Len(args.legs)
    /\ LET E0 == args.easting
           N0 == args.northing
           es == << Line("north_line", "-", <<Num(E0), Num(N0)>>,
                         <<Num(E0), Add(Num(N0), Num(ARROW_LEN))>>, "North"),
                    add_text("north_label", <<"N">>,
                             <<Num(E0), Add(Add(Num(N0), Num(ARROW_LEN)), <<5, 0>>)>>,
                             1, "North") >>
       IN  /\ entities' = entities \o es
           /\ ops' = ops \o OpsOf(es)
    /\ pc' = "cli_save"
    /\ UNCHANGED <<inputs, last, side_mm, tdf, i, centers, layers, meta, files, msg>>

\* lines 121-125: doc.saveas(out) and the report
CliSave ==
    /\ variant = "cli" /\ pc = "cli_save"
    /\ files' = Append(files, [layers |-> layers, entities |-> entities,
                               meta |-> meta])
    /\ ops' = Append(ops, <<"saveas">>)
    /\ msg' = Append(msg, <<"wrote">>)
    /\ pc' = "cli_done"
    /\ UNCHANGED <<inputs, last, side_mm, tdf, i, centers, layers, entities, meta>>

Next ==
    \/ ScriptGuard
    \/ ClickCreate
    \/ DrawNew
    \/ DrawLeg
    \/ DrawAnnotate
    \/ DrawSave
    \/ HandlerSuccess
    \/ HandlerExcept
    \/ CliParse
    \/ CliLoad
    \/ CliPrepare
    \/ CliLeg
    \/ CliNorth
    \/ CliSave

Spec == Init /\ [][Next]_vars


-----------------------------------------------------------------------------
(* Vocabulary of the properties *)

PlainRun == variant \in {"ui", "call"}

CliRun == variant = "cli"

IsAdd(op) == op[1] \in {"add_lwpolyline", "add_line", "add_mtext", "add_text"}

SaveCount == Cardinality({k \in DOMAIN ops : ops[k] = <<"saveas">>})

\* positions, in the iteration order, of the selected legs whose distance is NaN
FaultyPos ==
    {k \in DOMAIN LegOrder :
        sel_rows[LegOrder[k]].present /\ sel_rows[LegOrder[k]].dist = NaN}

FirstOf(S) == CHOOSE k \in S : \A j \in S : k <= j

Squares(es) == {k \in DOMAIN es : es[k].tag = "square"}

\* the number of polygons of leg l among the entities es
PolyCount(es, l) == Cardinality({k \in Squares(es) : es[k].leg = l})

\* the number of times leg l is named in the list ls
Occurrences(ls, l) == Cardinality({k \in DOMAIN ls : ls[k] = l})

-----------------------------------------------------------------------------
(* C1 *)

\* C1: plain render.  When a selected leg's distance is NaN the loop never gets
\* past the first such leg, the render ends by raising ValueError and nothing is
\* ever written, although polygons of earlier legs may already be in the
\* document.  When every selected leg has a numeric distance the finished render
\* has written the document exactly once, holding every entity added, and
\* saveas is the last operation made on the document.
C1_PersistOnlyOnSuccess ==
    PlainRun =>
        /\ SaveCount <= 1
        /\ Len(files) = SaveCount
        /\ SaveCount = 1 => ops[Len(ops)] = <<"saveas">>
        /\ FaultyPos # {} =>
              /\ SaveCount = 0
              /\ files = <<>>
              /\ pc \notin {"save", "returned"}
              /\ pc = "loop" => i <= FirstOf(FaultyPos)
              /\ pc = "raised" =>
                    /\ i = FirstOf(FaultyPos)
                    /\ <<"ValueError", LegOrder[i]>> \in Range(msg)
              /\ pc = "done" => msg = << <<"ValueError", LegOrder[i]>>, <<"error">> >>
        /\ (FaultyPos = {} /\ pc \in {"returned", "done"}) =>
              /\ SaveCount = 1
              /\ Len(ops) = 3 + Len(entities) + 1
              /\ files = <<[layers |-> layers, entities |-> entities,
                            meta |-> meta]>>
              /\ \A l \in LegLabels :
                    sel_rows[l].present => PolyCount(files[1].entities, l) = 1

\* a faulty leg after a leg already drawn: the error is reported, the polygon
\* is in the in-memory document, no file exists
C1_Witness ==
    /\ variant = "ui" /\ pc = "done"
    /\ FaultyPos # {} /\ FirstOf(FaultyPos) > 1
    /\ Squares(entities) # {}
    /\ <<"error">> \in Range(msg)
    /\ files = <<>>

-----------------------------------------------------------------------------
(* C2 *)

\* the legs named by --legs whose first row carries a NaN distance, once read
CliNaNLegs ==
    {l \in Range(args.legs) \cap LegLabels :
        tdf[l].read /\ tdf[l].found /\ tdf[l].dist = NaN}

\* C2: geo render.  When a selected leg with a matching row carries a NaN
\* distance, no file is written and the run ends with an error, not with the
\* report of a written file.
C2_GeoNaNAborts ==
    (CliRun /\ CliNaNLegs # {}) =>
        /\ files = <<>>
        /\ pc # "cli_done"
        /\ <<"wrote">> \notin Range(msg)

-----------------------------------------------------------------------------
(* C3 *)

\* C3: no leg selected.  On the page, when all four selections are None the
\* script stops at the guard: the form is never reached, no document is
\* created and nothing is written.  In the CLI an empty --legs list ends the
\* run at parse_args with a usage error, before any document exists.
C3_NoLegNoRender ==
    /\ (variant = "ui" /\ \A l \in LegLabels : ~sel_rows[l].present) =>
          /\ pc \in {"script", "stopped"}
          /\ pc = "stopped" => msg = << <<"info">> >>
          /\ ops = <<>> /\ entities = <<>> /\ files = <<>>
    /\ (CliRun /\ args.legs = <<>>) =>
          /\ pc \in {"cli_parse", "cli_exit"}
          /\ pc = "cli_exit" => msg = << <<"usage_error">> >>
          /\ ops = <<>> /\ entities = <<>> /\ files = <<>>

\* the page stopped at the guard with nothing selected
C3_Witness ==
    /\ variant = "ui" /\ pc = "stopped"
    /\ \A l \in LegLabels : ~sel_rows[l].present
    /\ msg = << <<"info">> >>
    /\ files = <<>>

-----------------------------------------------------------------------------
(* C4 *)

\* the legs a render was asked to draw
SelectedLegs ==
    IF PlainRun THEN {l \in LegLabels : sel_rows[l].present}
    ELSE Range(args.legs) \cap LegLabels

\* C4 as claimed: every written drawing holds exactly one polygon for each
\* selected leg and none for any other leg.
C4_OnePolygonPerSelectedLeg ==
    \A k \in DOMAIN files : \A l \in LegLabels :
        PolyCount(files[k].entities, l) = IF l \in SelectedLegs THEN 1 ELSE 0

\* C4 amended: every polygon of a written drawing is closed and belongs to a
\* selected leg.  The plain render writes exactly one polygon per selected leg.
\* The geo render writes, for a leg named by --legs, one polygon per time the
\* leg is named when the tower has a row for it, and none (a warning instead)
\* when it has no row.
C4_PolygonsOfSelectedLegs ==
    \A k \in DOMAIN files :
        LET es == files[k].entities IN
        /\ \A j \in Squares(es) :
              /\ es[j].leg \in SelectedLegs
              /\ es[j].kind = "LWPOLYLINE" /\ es[j].closed /\ Len(es[j].pts) = 5
        /\ \A l \in LegLabels :
              /\ l \notin SelectedLegs => PolyCount(es, l) = 0
              /\ (PlainRun /\ l \in SelectedLegs) => PolyCount(es, l) = 1
              /\ (CliRun /\ l \in SelectedLegs) =>
                    /\ tdf[l].read
                    /\ tdf[l].found => PolyCount(es, l) = Occurrences(args.legs, l)
                    /\ ~tdf[l].found =>
                          /\ PolyCount(es, l) = 0
                          /\ <<"warning", l>> \in Range(msg)

\* a geo drawing written with one selected leg drawn and another skipped
C4_Witness ==
    /\ CliRun /\ pc = "cli_done" /\ Len(files) = 1
    /\ \E l1, l2 \in SelectedLegs :
          /\ tdf[l1].found /\ PolyCount(files[1].entities, l1) = 1
          /\ ~tdf[l2].found /\ PolyCount(files[1].entities, l2) = 0

-----------------------------------------------------------------------------
(* C5 *)

\* sign of the x and of the y coordinate of a leg's direction
SignX(l) == IF l \in {"c", "d"} THEN 1 ELSE 0 - 1
SignY(l) == IF l \in {"b", "c"} THEN 1 ELSE 0 - 1

\* n * p for an integer n
Scale(n, p) == IF p = NaN THEN NaN ELSE <<n * p[1], n * p[2]>>

\* d * sqrt(2)/2
Diag(d) == IF d = NaN THEN NaN ELSE <<d[2], d[1] \div 2>>

\* the local square of leg l at distance d with side s, corner by corner
LocalCorner(l, d, s, k) ==
    LET cx == Scale(SignX(l), Diag(d))
        cy == Scale(SignY(l), Diag(d))
        h == Halve(s)
    IN  CASE k \in {1, 5} -> <<Sub(cx, h), Sub(cy, h)>>
          [] k = 2        -> <<Add(cx, h), Sub(cy, h)>>
          [] k = 3        -> <<Add(cx, h), Add(cy, h)>>
          [] k = 4        -> <<Sub(cx, h), Add(cy, h)>>

\* rotation of p about the origin by 90 - az degrees counter-clockwise, then
\* translation by (E, N), written out for the four right angles
Placed(p, az, E, N) ==
    CASE az = 0   -> <<Sub(Num(E), p[2]), Add(Num(N), p[1])>>
      [] az = 90  -> <<Add(Num(E), p[1]), Add(Num(N), p[2])>>
      [] az = 180 -> <<Add(Num(E), p[2]), Sub(Num(N), p[1])>>
      [] az = 270 -> <<Sub(Num(E), p[1]), Sub(Num(N), p[2])>>

\* C5: geo render.  Every corner of every polygon is the local corner rotated
\* about the local origin by 90 - azimuth degrees counter-clockwise and then
\* translated by (Easting, Northing); for azimuth 0 a local (x, y) is placed at
\* (Easting - y, Northing + x), and the centre (-k, -k) of leg a's square lands
\* at (Easting + k, Northing - k).
C5_RotateThenTranslate ==
    CliRun =>
        \A j \in Squares(entities) :
            LET e == entities[j]
                d == tdf[e.leg].dist
                E == args.easting
                N == args.northing
            IN  /\ \A k \in 1 .. 5 :
                      e.pts[k] = Placed(LocalCorner(e.leg, d, side_mm, k),
                                        args.azimuth, E, N)
                /\ (args.azimuth = 0 /\ e.leg = "a") =>
                      /\ Add(e.pts[1][1], e.pts[3][1]) = Scale(2, Add(Num(E), Diag(d)))
                      /\ Add(e.pts[1][2], e.pts[3][2]) = Scale(2, Sub(Num(N), Diag(d)))

\* leg a drawn at azimuth 0 with a positive distance, away from the map origin
C5_Witness ==
    /\ CliRun /\ pc = "cli_done" /\ args.azimuth = 0 /\ args.easting # 0
    /\ \E j \in Squares(entities) :
          /\ entities[j].leg = "a"
          /\ Gt0(tdf["a"].dist)
          /\ Gt0(side_mm)
          /\ entities[j].pts[1] =
                <<Add(Num(args.easting), Add(Diag(tdf["a"].dist), Halve(side_mm))),
                  Sub(Num(args.northing), Add(Diag(tdf["a"].dist), Halve(side_mm)))>>

-----------------------------------------------------------------------------
(* C6 *)

\* C6: geo render.  With azimuth 0 the local +Y axis points North: a local
\* point (0, y), y > 0, is placed at (Easting, Northing + y), on the line of
\* the north arrow.
C6_AzimuthZeroYIsNorth ==
    (CliRun /\ pc \in {"cli_loop", "cli_save", "cli_done"} /\ args.azimuth = 0) =>
        \A y \in 1 .. ARROW_LEN :
            to_geo(<<Num(0), Num(y)>>, theta_from_x(args.azimuth),
                   args.easting, args.northing)
              = <<Num(args.easting), Num(args.northing + y)>>

-----------------------------------------------------------------------------
(* C7 *)

AnnotationTags == {"dim_line", "dim_label", "side_note", "leg_note"}

\* both fixed layers were created before the k-th operation on the document
LayersMadeBefore(k) ==
    /\ \E j \in 1 .. (k - 1) : ops[j] = <<"layers.new", LAYER_SQUARES>>
    /\ \E j \in 1 .. (k - 1) : ops[j] = <<"layers.new", LAYER_ANN>>

\* the two-layer discipline, for the document of the current render
TwoLayerDiscipline ==
    /\ \A k \in DOMAIN ops : IsAdd(ops[k]) => LayersMadeBefore(k)
    /\ entities # <<>> => {LAYER_SQUARES, LAYER_ANN} \subseteq layers
    /\ \A j \in DOMAIN entities :
          /\ entities[j].tag = "square" => entities[j].layer = LAYER_SQUARES
          /\ entities[j].tag # "square" => entities[j].layer = LAYER_ANN
          /\ entities[j].layer \in {LAYER_SQUARES, LAYER_ANN}

\* C7 as claimed: in every render, plain or geo, both fixed layers exist before
\* the first entity is added, polygons are on the geometry layer, every other
\* entity is on the annotations layer, and no entity is on any other layer.
C7_TwoLayersEveryRender == TwoLayerDiscipline

\* C7 amended: the plain render keeps the two-layer discipline, its annotation
\* entities being exactly the construction lines, distance labels, side note
\* and leg notes.  The geo render creates no layer: each polygon is assigned to
\* the layer Square_<leg> of its own leg and the north arrow and its label to
\* the layer North.
C7_LayersPerVariant ==
    /\ PlainRun =>
          /\ TwoLayerDiscipline
          /\ \A j \in DOMAIN entities :
                entities[j].tag \in AnnotationTags \cup {"square"}
    /\ CliRun =>
          /\ \A k \in DOMAIN ops : ops[k][1] # "layers.new"
          /\ layers \subseteq {"0"}
          /\ \A j \in DOMAIN entities :
                /\ entities[j].tag \in {"square", "north_line", "north_label"}
                /\ entities[j].tag = "square" =>
                      entities[j].layer = SquareLayer(entities[j].leg)
                /\ entities[j].tag # "square" => entities[j].layer = "North"

\* a plain render that added polygons and annotations of all four kinds
C7_Witness ==
    /\ PlainRun /\ pc = "returned"
    /\ \A t \in AnnotationTags \cup {"square"} :
          \E j \in DOMAIN entities : entities[j].tag = t
    /\ ops[2] = <<"layers.new", LAYER_SQUARES>>
    /\ ops[3] = <<"layers.new", LAYER_ANN>>

-----------------------------------------------------------------------------
(* C8 *)

\* |p| for a number whose two parts do not differ in sign
AbsNum(p) == IF p = NaN THEN NaN ELSE <<Abs(p[1]), Abs(p[2])>>

\* the polygon drawn for the leg at position k of centers
PolygonOf(leg) == entities[CHOOSE j \in Squares(entities) : entities[j].leg = leg]

\* the four corners of the axis-aligned square of side s centred on c
SquareAround(c, s) ==
    {<<Add(c[1], Scale(sx, Halve(s))), Add(c[2], Scale(sy, Halve(s)))>> :
        sx \in {0 - 1, 1}, sy \in {0 - 1, 1}}

PresentCenters == {k \in DOMAIN centers : centers[k].c # NoCenter}

\* the selected distance of the leg at position k of centers, in millimetres
DistMm(k) == Scale(1000, sel_rows[centers[k].leg].dist)

\* C8 as claimed: plain render.  The centre of each present leg has
\* |x| = |y| = distance_mm * sqrt(2)/2 with signs a:(-,-) b:(-,+) c:(+,+)
\* d:(+,-); the leg-angle table is never modified; the leg's polygon is the
\* axis-aligned square of the shared side centred on that point.
C8_CenterOnLegDiagonal ==
    PlainRun =>
        /\ leg_angle = LEG_ANGLE_DEG
        /\ \A k \in PresentCenters :
              LET l == centers[k].leg
                  c == centers[k].c
              IN  /\ AbsNum(c[1]) = Diag(DistMm(k))
                  /\ AbsNum(c[2]) = Diag(DistMm(k))
                  /\ Sign(c[1]) = SignX(l)
                  /\ Sign(c[2]) = SignY(l)
                  /\ PolyCount(entities, l) = 1
                  /\ Range(PolygonOf(l).pts) = SquareAround(c, side_mm)

\* C8 amended: plain render.  The centre of each present leg is
\* (sx, sy) * distance_mm * sqrt(2)/2 with (sx, sy) = a:(-1,-1) b:(-1,+1)
\* c:(+1,+1) d:(+1,-1), distance_mm = distance_m * 1000; hence for a positive
\* distance |x| = |y| = distance_mm * sqrt(2)/2 with signs a:(-,-) b:(-,+)
\* c:(+,+) d:(+,-), for a zero distance the centre is the origin, and for a
\* negative distance the signs are the opposite ones.  The leg-angle table is
\* never modified and the leg's polygon is the axis-aligned square of the
\* shared side centred on that point.
C8_CenterAlongLegAngle ==
    PlainRun =>
        /\ leg_angle = LEG_ANGLE_DEG
        /\ \A k \in PresentCenters :
              LET l == centers[k].leg
                  c == centers[k].c
                  d == DistMm(k)
              IN  /\ c = <<Scale(SignX(l), Diag(d)), Scale(SignY(l), Diag(d))>>
                  /\ Gt0(d) =>
                        /\ AbsNum(c[1]) = Diag(d) /\ AbsNum(c[2]) = Diag(d)
                        /\ Sign(c[1]) = SignX(l) /\ Sign(c[2]) = SignY(l)
                  /\ d = Num(0) => c = <<Num(0), Num(0)>>
                  /\ (~Gt0(d) /\ d # Num(0)) =>
                        /\ Sign(c[1]) = 0 - SignX(l) /\ Sign(c[2]) = 0 - SignY(l)
                  /\ PolyCount(entities, l) = 1
                  /\ Range(PolygonOf(l).pts) = SquareAround(c, side_mm)

\* all four legs drawn at a positive distance with a positive side
C8_Witness ==
    /\ PlainRun /\ pc = "returned"
    /\ PresentCenters = 1 .. 4
    /\ \A k \in PresentCenters : Gt0(DistMm(k))
    /\ Gt0(side_mm)
    /\ centers[1].c = <<Neg(Diag(DistMm(1))), Neg(Diag(DistMm(1)))>>

-----------------------------------------------------------------------------
(* C9 *)

Lt(p, q) == Sign(Sub(q, p)) > 0

Leq(p, q) == Sign(Sub(q, p)) >= 0

\* p * p over the denominator Den * Den
SqNum(p) == <<p[1] * p[1] + 2 * p[2] * p[2], 2 * p[1] * p[2]>>

\* the squared distance of the points p and c, over the denominator Den * Den
SqDist(p, c) == Add(SqNum(Sub(p[1], c[1])), SqNum(Sub(p[2], c[2])))

\* a corner list was computed for a centre with numeric coordinates
CornersComputed == last.pts # <<>> /\ last.c[1] # NaN /\ last.c[2] # NaN

\* five points, the last repeating the first
Closed5(pts) == Len(pts) = 5 /\ pts[5] = pts[1]

\* consecutive corners share a coordinate: along x, along y, along x, along y
AxisAligned(pts) ==
    /\ pts[2][2] = pts[1][2] /\ pts[3][1] = pts[2][1]
    /\ pts[4][2] = pts[3][2] /\ pts[4][1] = pts[1][1]

\* every corner at squared distance side^2 / 2 from the centre
Equidistant(pts, c, side) ==
    \A k \in 1 .. 4 : Scale(2, SqDist(pts[k], c)) = SqNum(side)

\* C9 as claimed: for every centre and every side value the corner list is
\* closed (5 points, first = last), runs counter-clockwise from the bottom-left
\* corner (bottom-left, bottom-right, top-right, top-left, bottom-left), and
\* its four corners are at the distance side * sqrt(2)/2 from the centre.
C9_ClosedCcwFromBottomLeft ==
    CornersComputed =>
        /\ Closed5(last.pts)
        /\ AxisAligned(last.pts)
        /\ Leq(last.pts[1][1], last.pts[2][1])
        /\ Leq(last.pts[2][2], last.pts[3][2])
        /\ Equidistant(last.pts, last.c, side_mm)
        /\ Sign(side_mm) >= 0

\* C9 amended: for every centre with numeric coordinates and every side value
\* the corner list is closed (5 points, first = last), axis-aligned, and its
\* four corners are at the squared distance side^2 / 2 from the centre, that is
\* at the distance |side| * sqrt(2)/2.  For a positive side it runs
\* counter-clockwise from the bottom-left corner; for a negative side it runs
\* counter-clockwise from the top-right corner; for a zero side all five points
\* are the centre.
C9_ClosedSquareAroundCenter ==
    CornersComputed =>
        LET pts == last.pts IN
        /\ Closed5(pts)
        /\ AxisAligned(pts)
        /\ Equidistant(pts, last.c, side_mm)
        /\ Sign(side_mm) > 0 =>
              /\ Lt(pts[1][1], pts[2][1]) /\ Lt(pts[2][2], pts[3][2])
              /\ pts[1] = <<Sub(last.c[1], Halve(side_mm)),
                            Sub(last.c[2], Halve(side_mm))>>
        /\ Sign(side_mm) < 0 =>
              /\ Lt(pts[2][1], pts[1][1]) /\ Lt(pts[3][2], pts[2][2])
        /\ Sign(side_mm) = 0 => \A k \in 1 .. 5 : pts[k] = last.c

\* a corner list computed for a centre off the origin with a positive side
C9_Witness ==
    /\ CornersComputed
    /\ Sign(side_mm) > 0
    /\ last.c # <<Num(0), Num(0)>>
    /\ Lt(last.pts[1][1], last.pts[3][1])
    /\ entities # <<>>

-----------------------------------------------------------------------------
(* C10 *)

SideNotes == {j \in DOMAIN entities : entities[j].tag = "side_note"}

TagCount(t, l) ==
    Cardinality({j \in DOMAIN entities : entities[j].tag = t /\ entities[j].leg = l})

PresentLegs == {l \in LegLabels : sel_rows[l].present}

\* the plain render is past its annotation step
Annotated == pc \in {"save", "returned"} \/ (pc = "done" /\ files # <<>>)

\* position, in the iteration order, of the first selected leg
FirstPresentPos == FirstOf({k \in DOMAIN LegOrder : sel_rows[LegOrder[k]].present})

\* 0.6 * s
SixTenths(s) == <<(6 * s[1]) \div Den, (6 * s[2]) \div Den>>

\* C10: plain render.  With annotations enabled and at least one leg present
\* the side note is emitted exactly once (never once per leg), anchored at the
\* centre of the first present leg of the iteration order moved left by
\* 0.6 * side and up by 0.6 * side.  With no leg present, or with the
\* annotations flag off, it is not emitted, and with the flag off no annotation
\* entity of any kind is.
C10_OneSideNoteAtFirstLeg ==
    PlainRun =>
        /\ Cardinality(SideNotes) <= 1
        /\ ~Annotated => \A j \in DOMAIN entities : entities[j].tag = "square"
        /\ Annotated =>
              /\ Cardinality(SideNotes) =
                    IF add_ann /\ PresentLegs # {} THEN 1 ELSE 0
              /\ ~add_ann => \A j \in DOMAIN entities : entities[j].tag = "square"
              /\ PresentLegs = {} => entities = <<>>
              /\ add_ann => \A l \in PresentLegs :
                    /\ TagCount("dim_line", l) = 1
                    /\ TagCount("dim_label", l) = 1
                    /\ TagCount("leg_note", l) = 1
        /\ \A j \in SideNotes :
              LET c0 == centers[FirstPresentPos].c IN
              /\ entities[j].leg = LegOrder[FirstPresentPos]
              /\ entities[j].layer = LAYER_ANN
              /\ entities[j].pts = << <<Sub(c0[1], SixTenths(side_mm)),
                                        Add(c0[2], SixTenths(side_mm))>> >>

\* three legs present, the first of them not leg a: still one side note
C10_Witness ==
    /\ PlainRun /\ Annotated /\ add_ann
    /\ PresentLegs = {"b", "c", "d"}
    /\ Cardinality(SideNotes) = 1
    /\ \E j \in SideNotes : entities[j].leg = "b"
    /\ centers[2].c # centers[3].c
    /\ Sign(side_mm) > 0

====
